---- MODULE Spec2Model ----
(***************************************************************************)
(* Model of backend/src/toolOpener.py: the /api/open-tool request handler  *)
(* (open_tool) and the background thread it starts (open_and_close_tool),  *)
(* which opens a Chrome tab through osascript, sleeps for the requested    *)
(* duration and closes the last tab of window 1.                           *)
(*                                                                         *)
(* Requests are numbered in arrival order; request r, when accepted, owns  *)
(* the dict result[r] and the thread whose position is tpc[r].  Every      *)
(* write of the thread to its dict is a step of its own, so the states a   *)
(* concurrent reader could see between two writes are states of the model. *)
(***************************************************************************)
EXTENDS Integers, Sequences, FiniteSets, TLC

\* ------------------------------------------------------------------ bounds
\* The requests served in a behaviour of Spec and of SpecConcurrent, and the
\* largest positive duration a request names.
MaxJobs == 1
MaxConcurrent == 2
MaxDuration == 1

\* --------------------------------------------------------------- constants
DefaultDuration == 60

NoTool == "<missing>"
NoUrl == ""

TOOL_URLS ==
  [gmail    |-> "https://mail.google.com/",
   calendar |-> "https://calendar.google.com/",
   notion   |-> "https://www.notion.so/",
   tasks    |-> "https://tasks.google.com/tasks/"]

UnsupportedMessage == "This feature is only supported on macOS."
SleepErrorMessage == "sleep length must be non-negative"
DriverErrorMessage == "[Errno 35] Resource temporarily unavailable"
NewTabPage == "chrome://newtab/"
UserPage == "https://example.org/"

\* ------------------------------------------------------------------ inputs
Platforms == {"Darwin", "Linux"}

RequestTools == {"gmail", "tasks", "unknown-tool", NoTool}

\* The "duration" member of the JSON body: absent, null, an integer or a string.
Absent == [kind |-> "absent", n |-> 0, s |-> <<>>]
Null == [kind |-> "null", n |-> 0, s |-> <<>>]
IntValue(n) == [kind |-> "int", n |-> n, s |-> <<>>]
StrValue(s) == [kind |-> "str", n |-> 0, s |-> s]

DurationStrings == {<<"-", "1">>, <<"x">>}

RequestDurations ==
  {Absent, Null} \cup {IntValue(n) : n \in {-1, 0, MaxDuration}}
                 \cup {StrValue(s) : s \in DurationStrings}

\* What one run of osascript can do: exit 0, exit non-zero (subprocess.run
\* without check=True returns normally), or fail to run at all (OSError).
DriverOutcomes == {"ok", "exit_fail", "raise"}

\* A tab of a Chrome window; job = 0 for a tab no job created.
Tab(url, job) == [url |-> url, job |-> job]

InitialWindows == {<<>>, << <<Tab(UserPage, 0)>> >>}

\* The targets close_tab_script tests for (lines 46 and 48): no window, and a
\* front window that has no tab, alone or before a window of the user's.
EmptyTargets == {<<>>, << <<>> >>, << <<>>, <<Tab(UserPage, 0)>> >>}

\* Requests of a known tool with an explicit duration.
ValidTools == {"gmail"}
ValidDurations == {IntValue(MaxDuration)}

VARIABLES
  platformSystem,  \* platform.system()
  windows0,        \* history: the windows Chrome had before the first request
  windows,         \* Google Chrome: windows front to back, each a sequence of tabs
  req,             \* request r as received: [tool, duration]
  hpc,             \* position of the handler serving request r
  response,        \* the HTTP response to request r, once sent
  result,          \* the dict `result` created for request r
  tpc,             \* position of the thread of request r
  args,            \* (url, duration) passed to the thread of request r
  slept,           \* ticks elapsed since the thread's time.sleep began
  error_message,   \* the exception caught by the thread's except clause
  driverLog        \* the osascript runs of the thread, in order

vars == <<platformSystem, windows0, windows, req, hpc, response, result, tpc, args,
          slept, error_message, driverLog>>

\* The requests of the behaviour, numbered in arrival order.
Jobs == DOMAIN hpc


\* The values the state takes.
ThreadPositions ==
  {"unstarted", "L18", "L19", "L20", "L39", "L41", "sleeping", "L55", "L57",
   "L61", "L62", "done"}

TypeOK ==
  /\ platformSystem \in Platforms
  /\ windows0 \in InitialWindows \cup EmptyTargets
  /\ Len(windows) <= 2
  /\ \A w \in 1..Len(windows) : \A t \in 1..Len(windows[w]) :
       windows[w][t].job \in {0} \cup Jobs
  /\ DOMAIN req \subseteq Jobs
  /\ \A r \in DOMAIN req :
       req[r].tool \in RequestTools /\ req[r].duration \in RequestDurations
  /\ hpc \in [Jobs -> {"idle", "started", "done"}]
  /\ DOMAIN response \subseteq DOMAIN req
  /\ \A r \in DOMAIN response : response[r].code \in {200, 400, 500}
  /\ DOMAIN result \subseteq DOMAIN req
  /\ \A r \in DOMAIN result :
       /\ DOMAIN result[r] \subseteq {"status", "error"}
       /\ result[r].status \in {"opening", "closed", "error"}
  /\ tpc \in [Jobs -> ThreadPositions]
  /\ \A r \in Jobs :
       /\ args[r].duration \in (-1)..DefaultDuration
       /\ slept[r] \in 0..DefaultDuration
       /\ Len(driverLog[r]) <= 2
       /\ (tpc[r] = "unstarted") = (r \notin DOMAIN result)

\* ------------------------------------------------------- pure operations
Min(a, b) == IF a <= b THEN a ELSE b

DigitValue ==
  [c \in {"0", "1", "2", "3", "4", "5", "6", "7", "8", "9"} |->
     CASE c = "0" -> 0 [] c = "1" -> 1 [] c = "2" -> 2 [] c = "3" -> 3
       [] c = "4" -> 4 [] c = "5" -> 5 [] c = "6" -> 6 [] c = "7" -> 7
       [] c = "8" -> 8 [] c = "9" -> 9]

IsDigits(s) == Len(s) > 0 /\ \A i \in 1..Len(s) : s[i] \in DOMAIN DigitValue

RECURSIVE DecimalValue(_)
DecimalValue(s) ==
  IF Len(s) = 0 THEN 0
  ELSE 10 * DecimalValue(SubSeq(s, 1, Len(s) - 1)) + DigitValue[s[Len(s)]]

Converted(n) == [ok |-> TRUE, value |-> n]
ConversionError == [ok |-> FALSE, value |-> 0]

\* int(s) for a string s: an optional sign followed by decimal digits.
ParseInt(s) ==
  IF IsDigits(s) THEN Converted(DecimalValue(s))
  ELSE IF Len(s) > 1 /\ s[1] = "-" /\ IsDigits(Tail(s))
       THEN Converted(0 - DecimalValue(Tail(s)))
  ELSE IF Len(s) > 1 /\ s[1] = "+" /\ IsDigits(Tail(s))
       THEN Converted(DecimalValue(Tail(s)))
  ELSE ConversionError

\* Variant of DurationOf: an absent duration counts as no wait.
DurationOf_NoWait(d) ==
  CASE d.kind = "absent" -> Converted(0)
    [] d.kind = "int"    -> Converted(d.n)
    [] d.kind = "str"    -> ParseInt(d.s)
    [] OTHER             -> ConversionError

\* int(data.get('duration', 60)): the default applies only to an absent key;
\* int(None) raises TypeError, int("x") raises ValueError.
DurationOf(d) ==
  CASE d.kind = "absent" -> Converted(DefaultDuration)
    [] d.kind = "int"    -> Converted(d.n)
    [] d.kind = "str"    -> ParseInt(d.s)
    [] OTHER             -> ConversionError

\* TOOL_URLS.get(tool)
UrlOf(tool) == IF tool \in DOMAIN TOOL_URLS THEN TOOL_URLS[tool] ELSE NoUrl

\* Variant of IsSupported: the platform test is left out.
IsSupported_Always(system) == TRUE

\* platform.system() != "Darwin" is the unsupported case.
IsSupported(system) == system = "Darwin"

\* d[k] = v on a dict
DictSet(d, k, v) ==
  [x \in DOMAIN d \cup {k} |-> IF x = k THEN v ELSE d[x]]

InvalidToolResponse == [code |-> 400, body |-> [error |-> "Invalid tool"]]
ServerErrorResponse == [code |-> 500, body |-> [error |-> "Internal Server Error"]]
StartedResponse(tool, duration) ==
  [code |-> 200,
   body |-> [status |-> "Process started to open tool", tool |-> tool,
             duration |-> duration]]

\* Variant of OpenTabScript: the tab is added before the tabs of window 1.
OpenTabScript_AtFront(ws, url, job) ==
  LET ws1 == IF Len(ws) = 0 THEN << <<Tab(NewTabPage, job)>> >> ELSE ws
  IN  [ws1 EXCEPT ![1] = <<Tab(url, job)>> \o @]

\* open_tab_script: make a window if there is none (Chrome gives a new window
\* one tab, the New Tab page), then add a tab with the URL at the end of the
\* tabs of window 1.
OpenTabScript(ws, url, job) ==
  LET ws1 == IF Len(ws) = 0 THEN << <<Tab(NewTabPage, job)>> >> ELSE ws
  IN  [ws1 EXCEPT ![1] = Append(@, Tab(url, job))]

\* Variant of CloseTabScript: the test for a tab (line 48) is left out.
CloseTabScript_Unguarded(ws) ==
  IF Len(ws) > 0
  THEN IF Len(ws[1]) <= 1 THEN Tail(ws)
       ELSE [ws EXCEPT ![1] = SubSeq(@, 1, Len(@) - 1)]
  ELSE ws

\* Variant of CloseTabScript: the first tab of window 1 is the one closed.
CloseTabScript_First(ws) ==
  IF Len(ws) > 0
  THEN IF Len(ws[1]) > 0
       THEN IF Len(ws[1]) = 1 THEN Tail(ws)
            ELSE [ws EXCEPT ![1] = Tail(@)]
       ELSE ws
  ELSE ws

\* close_tab_script: close the last tab of window 1 if there is a window and
\* it has a tab.  Chrome closes a window together with its last tab.
CloseTabScript(ws) ==
  IF Len(ws) > 0
  THEN IF Len(ws[1]) > 0
       THEN IF Len(ws[1]) = 1 THEN Tail(ws)
            ELSE [ws EXCEPT ![1] = SubSeq(@, 1, Len(@) - 1)]
       ELSE ws
  ELSE ws

\* Variant of SleepElapsed: the sleep returns one tick early.
SleepElapsed_Early(elapsed, duration) == elapsed >= duration - 1

\* time.sleep(duration) returns once at least duration has elapsed.
SleepElapsed(elapsed, duration) == elapsed >= duration

Call(name, outcome) == [call |-> name, outcome |-> outcome]

\* ------------------------------------------------------------------- Init
\* The state before the first of n requests: no request received, no dict, no
\* thread; the platform and the windows Chrome has are those of the host.
InitWith(n) ==
  /\ platformSystem \in Platforms
  /\ windows \in InitialWindows
  /\ windows0 = windows
  /\ req = << >>
  /\ hpc = [r \in 1..n |-> "idle"]
  /\ response = << >>
  /\ result = << >>
  /\ tpc = [r \in 1..n |-> "unstarted"]
  /\ args = [r \in 1..n |-> [url |-> NoUrl, duration |-> 0]]
  /\ slept = [r \in 1..n |-> 0]
  /\ error_message = [r \in 1..n |-> ""]
  /\ driverLog = [r \in 1..n |-> << >>]

Init == InitWith(MaxJobs)

InitConcurrent == InitWith(MaxConcurrent)

\* The state before the first request on a host whose Chrome has one of the
\* empty targets or a window of the user's.
InitEmptyTarget ==
  /\ platformSystem \in Platforms
  /\ windows \in InitialWindows \cup EmptyTargets
  /\ windows0 = windows
  /\ req = << >>
  /\ hpc = [r \in 1..MaxJobs |-> "idle"]
  /\ response = << >>
  /\ result = << >>
  /\ tpc = [r \in 1..MaxJobs |-> "unstarted"]
  /\ args = [r \in 1..MaxJobs |-> [url |-> NoUrl, duration |-> 0]]
  /\ slept = [r \in 1..MaxJobs |-> 0]
  /\ error_message = [r \in 1..MaxJobs |-> ""]
  /\ driverLog = [r \in 1..MaxJobs |-> << >>]

\* ------------------------------------------------------- request handler
\* open_tool, lines 67-76: request r arrives with the given body.  The
\* duration is converted before the tool is looked up; an exception of the
\* conversion leaves the view function and Flask answers 500.  For a known
\* tool the dict is created and the thread is started.
OpenTool(r, tool, duration) ==
  /\ hpc[r] = "idle"
  /\ \A q \in Jobs : q < r => hpc[q] # "idle"
  /\ req' = r :> [tool |-> tool, duration |-> duration] @@ req
  /\ LET conv == DurationOf(duration)
         url == UrlOf(tool)
     IN  IF ~conv.ok
         THEN /\ response' = r :> ServerErrorResponse @@ response
              /\ hpc' = [hpc EXCEPT ![r] = "done"]
              /\ UNCHANGED <<result, tpc, args>>
         ELSE IF url = NoUrl
         THEN /\ response' = r :> InvalidToolResponse @@ response
              /\ hpc' = [hpc EXCEPT ![r] = "done"]
              /\ UNCHANGED <<result, tpc, args>>
         ELSE /\ result' = r :> [status |-> "opening"] @@ result
              /\ args' = [args EXCEPT ![r] = [url |-> url, duration |-> conv.value]]
              /\ tpc' = [tpc EXCEPT ![r] = "L18"]
              /\ hpc' = [hpc EXCEPT ![r] = "started"]
              /\ UNCHANGED response
  /\ UNCHANGED <<platformSystem, windows0, windows, slept, error_message, driverLog>>

\* Variant of OpenToolReturn: the handler joins the thread before it answers.
OpenToolReturn_Join(r) ==
  /\ hpc[r] = "started"
  /\ tpc[r] = "done"
  /\ response' = r :> StartedResponse(req[r].tool, args[r].duration) @@ response
  /\ hpc' = [hpc EXCEPT ![r] = "done"]
  /\ UNCHANGED <<platformSystem, windows0, windows, req, result, tpc, args, slept,
                 error_message, driverLog>>

\* open_tool, line 78: the acknowledgment, built from the handler's locals.
OpenToolReturn(r) ==
  /\ hpc[r] = "started"
  /\ response' = r :> StartedResponse(req[r].tool, args[r].duration) @@ response
  /\ hpc' = [hpc EXCEPT ![r] = "done"]
  /\ UNCHANGED <<platformSystem, windows0, windows, req, result, tpc, args, slept,
                 error_message, driverLog>>

\* ------------------------------------------------ open_and_close_tool
\* The thread of request r, one action per statement that reads or writes
\* shared state.  The print calls are taken to succeed and are not steps.
\* line 18: the platform test.
CheckPlatform(r) ==
  /\ tpc[r] = "L18"
  /\ tpc' = [tpc EXCEPT ![r] = IF IsSupported(platformSystem) THEN "L39" ELSE "L19"]
  /\ UNCHANGED <<platformSystem, windows0, windows, req, hpc, response, result, args,
                 slept, error_message, driverLog>>

\* line 19: result['error'] = "This feature is only supported on macOS."
SetUnsupportedError(r) ==
  /\ tpc[r] = "L19"
  /\ result' = [result EXCEPT ![r] = DictSet(@, "error", UnsupportedMessage)]
  /\ tpc' = [tpc EXCEPT ![r] = "L20"]
  /\ UNCHANGED <<platformSystem, windows0, windows, req, hpc, response, args, slept,
                 error_message, driverLog>>

\* Variant of SetUnsupportedStatus: the return of line 22 is missing.
SetUnsupportedStatus_FallThrough(r) ==
  /\ tpc[r] = "L20"
  /\ result' = [result EXCEPT ![r] = DictSet(@, "status", "error")]
  /\ tpc' = [tpc EXCEPT ![r] = "L39"]
  /\ UNCHANGED <<platformSystem, windows0, windows, req, hpc, response, args, slept,
                 error_message, driverLog>>

\* lines 20-22: result['status'] = 'error', then return.
SetUnsupportedStatus(r) ==
  /\ tpc[r] = "L20"
  /\ result' = [result EXCEPT ![r] = DictSet(@, "status", "error")]
  /\ tpc' = [tpc EXCEPT ![r] = "done"]
  /\ UNCHANGED <<platformSystem, windows0, windows, req, hpc, response, args, slept,
                 error_message, driverLog>>

\* Variant of OpenTab: the open script waits while the job of another request
\* is between its open and its close.
OpenTab_Serialized(r, outcome) ==
  /\ tpc[r] = "L39"
  /\ \A q \in Jobs \ {r} : tpc[q] \notin {"L41", "sleeping", "L55"}
  /\ driverLog' = [driverLog EXCEPT ![r] = Append(@, Call("activate", outcome))]
  /\ windows' = IF outcome = "ok"
                THEN OpenTabScript(windows, args[r].url, r) ELSE windows
  /\ IF outcome = "raise"
     THEN /\ error_message' = [error_message EXCEPT ![r] = DriverErrorMessage]
          /\ tpc' = [tpc EXCEPT ![r] = "L61"]
     ELSE /\ tpc' = [tpc EXCEPT ![r] = "L41"]
          /\ UNCHANGED error_message
  /\ UNCHANGED <<platformSystem, windows0, req, hpc, response, result, args, slept>>

\* line 39: subprocess.run(['osascript', '-e', open_tab_script]).  The return
\* code is not looked at: a failing script is followed by the sleep like a
\* successful one.  Only an exception of subprocess.run reaches the except
\* clause.
OpenTab(r, outcome) ==
  /\ tpc[r] = "L39"
  /\ driverLog' = [driverLog EXCEPT ![r] = Append(@, Call("activate", outcome))]
  /\ windows' = IF outcome = "ok"
                THEN OpenTabScript(windows, args[r].url, r) ELSE windows
  /\ IF outcome = "raise"
     THEN /\ error_message' = [error_message EXCEPT ![r] = DriverErrorMessage]
          /\ tpc' = [tpc EXCEPT ![r] = "L61"]
     ELSE /\ tpc' = [tpc EXCEPT ![r] = "L41"]
          /\ UNCHANGED error_message
  /\ UNCHANGED <<platformSystem, windows0, req, hpc, response, result, args, slept>>

\* line 41: time.sleep(duration) is called; a negative duration raises
\* ValueError, which the except clause catches.
SleepBegin(r) ==
  /\ tpc[r] = "L41"
  /\ IF args[r].duration < 0
     THEN /\ error_message' = [error_message EXCEPT ![r] = SleepErrorMessage]
          /\ tpc' = [tpc EXCEPT ![r] = "L61"]
          /\ UNCHANGED slept
     ELSE /\ tpc' = [tpc EXCEPT ![r] = "sleeping"]
          /\ slept' = [slept EXCEPT ![r] = 0]
          /\ UNCHANGED error_message
  /\ UNCHANGED <<platformSystem, windows0, windows, req, hpc, response, result, args,
                 driverLog>>

\* line 41: time.sleep(duration) returns.
SleepEnd(r) ==
  /\ tpc[r] = "sleeping"
  /\ SleepElapsed(slept[r], args[r].duration)
  /\ tpc' = [tpc EXCEPT ![r] = "L55"]
  /\ UNCHANGED <<platformSystem, windows0, windows, req, hpc, response, result, args,
                 slept, error_message, driverLog>>

\* line 55: subprocess.run(['osascript', '-e', close_tab_script]), the return
\* code again not looked at.
CloseTab(r, outcome) ==
  /\ tpc[r] = "L55"
  /\ driverLog' = [driverLog EXCEPT ![r] = Append(@, Call("deactivate", outcome))]
  /\ windows' = IF outcome = "ok" THEN CloseTabScript(windows) ELSE windows
  /\ IF outcome = "raise"
     THEN /\ error_message' = [error_message EXCEPT ![r] = DriverErrorMessage]
          /\ tpc' = [tpc EXCEPT ![r] = "L61"]
     ELSE /\ tpc' = [tpc EXCEPT ![r] = "L57"]
          /\ UNCHANGED error_message
  /\ UNCHANGED <<platformSystem, windows0, req, hpc, response, result, args, slept>>

\* Variant of SetClosed: one dict is shared by the jobs of all requests.
SetClosed_Shared(r) ==
  /\ tpc[r] = "L57"
  /\ result' = [q \in DOMAIN result |-> DictSet(result[q], "status", "closed")]
  /\ tpc' = [tpc EXCEPT ![r] = "done"]
  /\ UNCHANGED <<platformSystem, windows0, windows, req, hpc, response, args, slept,
                 error_message, driverLog>>

\* Variant of SetClosed: the thread ends without recording the status.
SetClosed_Unrecorded(r) ==
  /\ tpc[r] = "L57"
  /\ tpc' = [tpc EXCEPT ![r] = "done"]
  /\ UNCHANGED <<platformSystem, windows0, windows, req, hpc, response, result, args,
                 slept, error_message, driverLog>>

\* lines 57-58: result['status'] = 'closed'
SetClosed(r) ==
  /\ tpc[r] = "L57"
  /\ result' = [result EXCEPT ![r] = DictSet(@, "status", "closed")]
  /\ tpc' = [tpc EXCEPT ![r] = "done"]
  /\ UNCHANGED <<platformSystem, windows0, windows, req, hpc, response, args, slept,
                 error_message, driverLog>>

\* lines 59-61: except Exception as e: result['error'] = str(e)
SetExceptionError(r) ==
  /\ tpc[r] = "L61"
  /\ result' = [result EXCEPT ![r] = DictSet(@, "error", error_message[r])]
  /\ tpc' = [tpc EXCEPT ![r] = "L62"]
  /\ UNCHANGED <<platformSystem, windows0, windows, req, hpc, response, args, slept,
                 error_message, driverLog>>

\* Variant of SetExceptionStatus: after a failure the thread starts over.
SetExceptionStatus_Retry(r) ==
  /\ tpc[r] = "L62"
  /\ result' = [result EXCEPT ![r] = DictSet(@, "status", "error")]
  /\ tpc' = [tpc EXCEPT ![r] = "L39"]
  /\ UNCHANGED <<platformSystem, windows0, windows, req, hpc, response, args, slept,
                 error_message, driverLog>>

\* lines 62-63: result['status'] = 'error'
SetExceptionStatus(r) ==
  /\ tpc[r] = "L62"
  /\ result' = [result EXCEPT ![r] = DictSet(@, "status", "error")]
  /\ tpc' = [tpc EXCEPT ![r] = "done"]
  /\ UNCHANGED <<platformSystem, windows0, windows, req, hpc, response, args, slept,
                 error_message, driverLog>>

\* ------------------------------------------------------------------- time
Sleeping(r) == tpc[r] = "sleeping"
Remaining(r) == args[r].duration - slept[r]
Sleepers == {r \in Jobs : Sleeping(r) /\ Remaining(r) > 0}

\* One tick of time passes, for every sleeping thread at once.  A counter
\* stops at the duration it is compared with.
Tick ==
  /\ Sleepers # {}
  /\ slept' = [r \in Jobs |->
                 IF Sleeping(r)
                 THEN Min(slept[r] + 1, args[r].duration)
                 ELSE slept[r]]
  /\ UNCHANGED <<platformSystem, windows0, windows, req, hpc, response, result, tpc,
                 args, error_message, driverLog>>

\* ------------------------------------------------------------------- Next
Next ==
  \/ \E r \in Jobs, tool \in RequestTools, duration \in RequestDurations :
       OpenTool(r, tool, duration)
  \/ \E r \in Jobs : OpenToolReturn(r)
  \/ \E r \in Jobs : CheckPlatform(r)
  \/ \E r \in Jobs : SetUnsupportedError(r)
  \/ \E r \in Jobs : SetUnsupportedStatus(r)
  \/ \E r \in Jobs, outcome \in DriverOutcomes : OpenTab(r, outcome)
  \/ \E r \in Jobs : SleepBegin(r)
  \/ \E r \in Jobs : SleepEnd(r)
  \/ \E r \in Jobs, outcome \in DriverOutcomes : CloseTab(r, outcome)
  \/ \E r \in Jobs : SetClosed(r)
  \/ \E r \in Jobs : SetExceptionError(r)
  \/ \E r \in Jobs : SetExceptionStatus(r)
  \/ Tick

Spec == Init /\ [][Next]_vars

\* The same program serving MaxConcurrent requests, whose threads and
\* handlers interleave.
SpecConcurrent == InitConcurrent /\ [][Next]_vars

\* The program on a host whose Chrome may have an empty target.
SpecEmptyTarget == InitEmptyTarget /\ [][Next]_vars

\* A step of the thread of request r (lines 16-63).
ThreadStep(r) ==
  \/ CheckPlatform(r)
  \/ SetUnsupportedError(r)
  \/ SetUnsupportedStatus(r)
  \/ \E outcome \in DriverOutcomes : OpenTab(r, outcome)
  \/ SleepBegin(r)
  \/ SleepEnd(r)
  \/ \E outcome \in DriverOutcomes : CloseTab(r, outcome)
  \/ SetClosed(r)
  \/ SetExceptionError(r)
  \/ SetExceptionStatus(r)

\* The steps of the program when every request names a known tool and gives
\* its duration.
NextValid ==
  \/ \E r \in Jobs, tool \in ValidTools, duration \in ValidDurations :
       OpenTool(r, tool, duration)
  \/ \E r \in Jobs : OpenToolReturn(r)
  \/ \E r \in Jobs : ThreadStep(r)
  \/ Tick

\* MaxConcurrent such requests, whose threads and handlers interleave.
SpecValid == InitConcurrent /\ [][NextValid]_vars

\* Every started thread is scheduled again and again, the handler returns,
\* and time passes.
Fairness ==
  /\ \A r \in 1..MaxConcurrent :
       WF_vars(ThreadStep(r)) /\ WF_vars(OpenToolReturn(r))
  /\ WF_vars(Tick)

FairSpecValid == SpecValid /\ Fairness

\* ----------------------------------------------------------- properties
Status(r) == result[r].status
HasError(r) == "error" \in DOMAIN result[r]
Terminal(r) == r \in DOMAIN result /\ Status(r) \in {"closed", "error"}

Invoked(r, name) ==
  \E i \in 1..Len(driverLog[r]) : driverLog[r][i].call = name
Succeeded(r, name) ==
  \E i \in 1..Len(driverLog[r]) : driverLog[r][i] = Call(name, "ok")
Failed(r, name) ==
  \E i \in 1..Len(driverLog[r]) :
    driverLog[r][i].call = name /\ driverLog[r][i].outcome # "ok"

KnownTool(r) == req[r].tool \in DOMAIN TOOL_URLS

\* No thread is under way, at least one job has run, and every job that
\* has run ended 'closed' with both of its scripts succeeding.
AllClosed ==
  /\ \E r \in Jobs : tpc[r] = "done"
  /\ \A r \in Jobs :
       \/ tpc[r] = "unstarted"
       \/ /\ tpc[r] = "done"
          /\ Status(r) = "closed"
          /\ driverLog[r] = <<Call("activate", "ok"), Call("deactivate", "ok")>>

\* The tab the open script of request r added is among Chrome's tabs.
ViewOpen(r) ==
  \E w \in 1..Len(windows) : \E i \in 1..Len(windows[w]) :
    windows[w][i] = Tab(args[r].url, r)

\* The phase a status snapshot shows: 'opening' is Pending, 'closed' is
\* Closed, 'error' is Failed; Active would be any other status.
Phase(r) ==
  CASE Status(r) = "opening" -> "Pending"
    [] Status(r) = "closed"  -> "Closed"
    [] Status(r) = "error"   -> "Failed"
    [] OTHER                 -> "Active"

\* C1: a job that has opened a tab and has ended (its status is terminal and
\* its thread is over) has invoked the close of the tab.
C1_TimedReversal ==
  \A r \in Jobs :
    (tpc[r] = "done" /\ Terminal(r) /\ Succeeded(r, "activate"))
      => Invoked(r, "deactivate")

\* C2: a request whose tool is not in TOOL_URLS is answered 400 "Invalid
\* tool", and it creates no dict and starts no thread.
C2_UnknownToolRejected ==
  \A r \in DOMAIN req :
    (hpc[r] = "done" /\ ~KnownTool(r))
      => /\ response[r] = InvalidToolResponse
         /\ r \notin DOMAIN result
         /\ tpc[r] = "unstarted"

\* C3: once the handler has started the thread, its acknowledgment can be
\* returned whatever the position of the thread: returning never waits for
\* the job to be closed or failed.
C3_AckNotBlocked ==
  \A r \in Jobs : hpc[r] = "started" => ENABLED OpenToolReturn(r)

C3_Witness ==
  \E r \in DOMAIN response :
    /\ response[r] = StartedResponse(req[r].tool, args[r].duration)
    /\ tpc[r] = "sleeping"
    /\ slept[r] < args[r].duration
    /\ Status(r) = "opening"

\* C4: a request whose tool is in TOOL_URLS is answered with the success
\* acknowledgment, whatever its duration.
C4_KnownToolAcknowledged ==
  \A r \in DOMAIN response :
    KnownTool(r) => response[r].code = 200

\* C5: when the platform is not macOS, no job runs osascript at all, a job's
\* thread only takes the steps that record the failure, and a job that has
\* ended has status 'error' with the platform message.
C5_UnsupportedPlatform ==
  platformSystem # "Darwin" =>
    \A r \in Jobs :
      /\ driverLog[r] = << >>
      /\ tpc[r] \in {"unstarted", "L18", "L19", "L20", "done"}
      /\ tpc[r] = "done" =>
           /\ Status(r) = "error"
           /\ HasError(r)
           /\ result[r].error = UnsupportedMessage

C5_Witness ==
  /\ platformSystem # "Darwin"
  /\ \E r \in Jobs : tpc[r] = "done" /\ Status(r) = "error"

\* C6: a job whose open script failed (by exception or by exit status) does
\* not enter the sleep, does not run the close script, and ends with status
\* 'error' and a non-empty error.
C6_ActivateFailure ==
  \A r \in Jobs :
    Failed(r, "activate") =>
      /\ tpc[r] \notin {"sleeping", "L55", "L57"}
      /\ ~Invoked(r, "deactivate")
      /\ tpc[r] = "done" => (Status(r) = "error" /\ HasError(r) /\ result[r].error # "")

\* C7: after the open script has succeeded and until the close script has
\* succeeded the record shows Active: a reader during the sleep sees Active,
\* not Pending.
C7_ActiveDuringWait ==
  \A r \in Jobs :
    (Succeeded(r, "activate") /\ tpc[r] = "sleeping") => Phase(r) = "Active"

\* C8: a job with duration d >= 0 has not run the close script and is not
\* 'closed' before d ticks have passed since its sleep began (the open
\* script had returned before).
C8_NoEarlyClose ==
  \A r \in Jobs :
    (args[r].duration >= 0
       /\ (Invoked(r, "deactivate") \/ tpc[r] \in {"L55", "L57"}
             \/ (r \in DOMAIN result /\ Status(r) = "closed")))
      => slept[r] >= args[r].duration

C8_Witness ==
  \E r \in Jobs :
    /\ args[r].duration >= 1
    /\ Succeeded(r, "activate")
    /\ Succeeded(r, "deactivate")
    /\ Status(r) = "closed"

\* C9: once the status of a job is 'closed' or 'error', no step changes its
\* dict again, neither the status nor the error.
C9_TerminalIsFinal ==
  [][\A r \in DOMAIN result : Terminal(r) => result'[r] = result[r]]_vars

C9_Witness ==
  \E r \in DOMAIN result :
    /\ Terminal(r)
    /\ tpc[r] = "done"
    /\ r \in DOMAIN response
    /\ Succeeded(r, "deactivate")

\* C10: in every state of a job's dict, the error is set exactly when the
\* status is 'error'.
C10_ErrorIffFailed ==
  \A r \in DOMAIN result : HasError(r) <=> Status(r) = "error"

\* C11: a job that opened its tab, waited and ran the close script ends
\* according to the outcome of the close: status 'error' with the driver's
\* message if the close failed, status 'closed' only if the close succeeded.
C11_FinalReflectsDeactivate ==
  \A r \in Jobs :
    (tpc[r] = "done" /\ Succeeded(r, "activate") /\ Invoked(r, "deactivate"))
      => /\ Failed(r, "deactivate")
              => /\ Status(r) = "error"
                 /\ HasError(r)
                 /\ result[r].error = DriverErrorMessage
         /\ Status(r) = "closed" => Succeeded(r, "deactivate")

\* C12: under fair scheduling of the threads and of time, every request that
\* was accepted (its dict exists) eventually has a terminal status, 'closed'
\* or 'error', whatever the threads of the other requests do.
C12_RunsToCompletion ==
  \A r \in 1..MaxConcurrent : (r \in DOMAIN result) ~> Terminal(r)

\* A job has ended while the thread of another request is still under way.
C12_Witness ==
  \E r \in Jobs, q \in Jobs :
    /\ r # q
    /\ Terminal(r) /\ tpc[r] = "done"
    /\ tpc[q] \notin {"unstarted", "done"}

\* C13: a close script that runs to its end when Chrome has no window, or a
\* front window without a tab, leaves the windows as they were; the thread
\* goes on to line 57 and the job ends with status 'closed' and no error.
C13_EmptyTargetNoOp ==
  [][\A r \in Jobs :
       /\ ( /\ tpc[r] = "L55"
            /\ driverLog'[r] = Append(driverLog[r], Call("deactivate", "ok"))
            /\ (Len(windows) = 0 \/ Len(windows[1]) = 0) )
          => (windows' = windows /\ tpc'[r] = "L57")
       /\ (tpc[r] = "L57" /\ tpc'[r] # "L57")
          => (tpc'[r] = "done" /\ Status(r)' = "closed" /\ ~HasError(r)')
    ]_vars

\* A job ended 'closed' after its close script ran on a front window that
\* had no tab, and the windows are those Chrome started with.
C13_Witness ==
  \E r \in Jobs :
    /\ windows0 = << <<>>, <<Tab(UserPage, 0)>> >>
    /\ windows = windows0
    /\ Failed(r, "activate") /\ Succeeded(r, "deactivate")
    /\ tpc[r] = "done" /\ Status(r) = "closed"

\* C14: a 200 acknowledgment carries the tool of the request and the
\* effective duration, 60 for a request without a duration and the integer
\* of the request otherwise; the thread is given that duration, and a thread
\* whose sleep has returned has slept exactly that long.
C14_AckEchoesRequest ==
  \A r \in DOMAIN response :
    response[r].code = 200
      => /\ response[r].body.tool = req[r].tool
         /\ req[r].duration.kind = "absent"
              => response[r].body.duration = DefaultDuration
         /\ req[r].duration.kind = "int"
              => response[r].body.duration = req[r].duration.n
         /\ args[r].duration = response[r].body.duration
         /\ (tpc[r] \in {"L55", "L57"} \/ Invoked(r, "deactivate"))
              => slept[r] = response[r].body.duration

\* A request without a duration was acknowledged with 60 and its job has
\* closed after sleeping 60.
C14_Witness ==
  \E r \in DOMAIN response :
    /\ req[r].duration = Absent
    /\ response[r] = StartedResponse("gmail", DefaultDuration)
    /\ tpc[r] = "done" /\ Status(r) = "closed"
    /\ slept[r] = DefaultDuration

\* C15: the osascript runs of a job are, in order, at most one open and then
\* at most one close; the close comes only after an open that did not raise
\* and a sleep of the whole duration, a sleeping thread has run the open and
\* not the close, and nothing is run after a run that raised.
C15_OrderedNeverRepeated ==
  \A r \in Jobs :
    LET log == driverLog[r] IN
    /\ Len(log) <= 2
    /\ Len(log) >= 1 => log[1].call = "activate"
    /\ Len(log) = 2
         => /\ log[2].call = "deactivate"
            /\ log[1].outcome # "raise"
            /\ args[r].duration >= 0
            /\ slept[r] = args[r].duration
    /\ tpc[r] \in {"L41", "sleeping", "L55"}
         => (Len(log) = 1 /\ log[1].outcome # "raise")
    /\ \A i \in 1..Len(log) : log[i].outcome = "raise" => i = Len(log)

\* A job has run the open, slept, run the close, which raised, and ended
\* with status 'error' without running anything again.
C15_Witness ==
  \E r \in Jobs :
    /\ tpc[r] = "done" /\ Status(r) = "error"
    /\ driverLog[r] = <<Call("activate", "ok"), Call("deactivate", "raise")>>
    /\ slept[r] = args[r].duration

\* C16: while the thread of a request is between its open and its close
\* (about to sleep, sleeping, or just woken), the thread of any other request
\* can take its next step, a sleep of another thread that has lasted its
\* duration can return, the handler can receive the next request and start
\* its thread, and it can return the acknowledgment of a started one.
C16_WaitBlocksNothing ==
  \A r \in Jobs :
    tpc[r] \in {"L41", "sleeping", "L55"}
      => \A q \in Jobs \ {r} :
           /\ tpc[q] \notin {"unstarted", "sleeping", "done"}
                => ENABLED ThreadStep(q)
           /\ (tpc[q] = "sleeping" /\ slept[q] >= args[q].duration)
                => ENABLED SleepEnd(q)
           /\ (hpc[q] = "idle" /\ \A p \in 1..(q - 1) : hpc[p] # "idle")
                => ENABLED (\E tool \in ValidTools, duration \in ValidDurations :
                              OpenTool(q, tool, duration))
           /\ hpc[q] = "started" => ENABLED OpenToolReturn(q)

\* One thread sleeps with time left while the thread of another request,
\* not yet acknowledged, is about to run its open script.
C16_Witness ==
  \E r \in Jobs, q \in Jobs :
    /\ r # q
    /\ Sleeping(r) /\ Remaining(r) > 0
    /\ tpc[q] = "L39" /\ hpc[q] = "started"

C18_RecordOwnedByItsThread ==
  [][\A r \in Jobs :
       /\ r \in DOMAIN result => r \in DOMAIN result'
       /\ (hpc[r] = "idle" /\ hpc'[r] = "started")
            = (r \notin DOMAIN result /\ r \in DOMAIN result')
       /\ (r \notin DOMAIN result /\ r \in DOMAIN result')
            => (result'[r] = [status |-> "opening"] /\ tpc'[r] = "L18")
       /\ (r \in DOMAIN result /\ result'[r] # result[r])
            => /\ tpc'[r] # tpc[r]
               /\ hpc' = hpc
               /\ \A q \in Jobs \ {r} : tpc'[q] = tpc[q]
    ]_vars

\* Two requests were accepted and acknowledged; the thread of one has set
\* its dict to 'closed' while the dict of the other still says 'opening'.
C18_Witness ==
  \E r \in Jobs, q \in Jobs :
    /\ r # q
    /\ hpc[r] = "done" /\ hpc[q] = "done"
    /\ tpc[r] = "done" /\ Status(r) = "closed"
    /\ q \in DOMAIN result /\ Status(q) = "opening" /\ Sleeping(q)

\* C19: every tab Chrome had before the first request is still open,
\* whatever the jobs have done, a job whose open script failed without
\* raising included.
C19_UserViewsStayOpen ==
  \A w0 \in 1..Len(windows0) : \A i0 \in 1..Len(windows0[w0]) :
    \E w \in 1..Len(windows) : \E i \in 1..Len(windows[w]) :
      windows[w][i] = windows0[w0][i0]

\* C20 as stated: once every job has ended 'closed' with all its scripts
\* succeeding, Chrome's windows and tabs are those it had before the first
\* request.
C20_ViewsConserved == AllClosed => windows = windows0

\* C20 amended: once every job has ended 'closed' with all its scripts
\* succeeding, Chrome's windows and tabs are those it had before the first
\* request if it had a window then; if it had none, the window the first
\* open script made is left, with the New Tab page it came with.
C20_ViewsConservedOrNewWindow ==
  AllClosed
    => IF Len(windows0) > 0
       THEN windows = windows0
       ELSE \E r \in Jobs : windows = << <<Tab(NewTabPage, r)>> >>

\* Two jobs have ended 'closed' on a Chrome that had no window, the open
\* script of the second having made the window that is left.
C20_Witness ==
  /\ AllClosed
  /\ \A r \in Jobs : tpc[r] = "done"
  /\ windows0 = << >>
  /\ windows = << <<Tab(NewTabPage, 2)>> >>

====
